---------------------------- MODULE Spec2Model ----------------------------
(***************************************************************************)
(* dbt-bq-sourcegen: reconciliation of a dbt source YAML document with a   *)
(* BigQuery schema snapshot.                                               *)
(*                                                                         *)
(*   logic/merge_strategy.py  merge_columns, merge_table, merge_sources,   *)
(*                            merge_source_file (pure functions)           *)
(*   io/yaml_handler.py       YamlHandler (load / store of the document)   *)
(*   cli.py                   apply (fetch -> load -> reconcile -> store)  *)
(*                                                                         *)
(* Specifications over the same variables:                                 *)
(*   MergeSpec      calls merge_source_file on inputs drawn from bounded   *)
(*                  sets, then again on its own output;                    *)
(*   Spec           one run of the apply command against a stored file;    *)
(*   RoundTripSpec  write_source_file of a document, then                  *)
(*                  read_source_file of the file written;                  *)
(*   SequenceSpec   consecutive merge_source_file calls, each on the       *)
(*                  previous result with a new snapshot and new flags.     *)
(*                                                                         *)
(* Python values are modelled as follows.  Strings are strings; None is    *)
(* the token None; the opaque meta mapping and tests list are tokens       *)
(* (EmptyDict, EmptyList and non-empty ones); an Optional object that is   *)
(* None is NoneObj; lists are sequences; a dict of the raw YAML data is a  *)
(* function whose DOMAIN is the set of keys present.                       *)
(***************************************************************************)
EXTENDS Integers, Sequences, FiniteSets, TLC

VARIABLES
    \* ---- arguments and locals of merge_source_file ----
    bq_tables,              \* List[BigQueryTable] (apply: bq_dataset.tables)
    yaml_file,              \* Optional[DbtSourceFile] (apply: existing_file)
    source_name,
    project_id,
    dataset_id,             \* apply: schema
    remove_deleted_tables,
    remove_deleted_columns,
    yaml_source,            \* local: the source selected by the loop
    other_sources,          \* local: the sources passed through
    merged_source,          \* local: result of merge_sources
    merged_file,            \* the DbtSourceFile returned (apply: the file to write)
    runs,                   \* number of merge_source_file calls made so far
    \* ---- the apply command ----
    pc,                     \* position inside apply
    file,                   \* the file at output_path
    file_before,            \* the file at output_path when apply started
    sync_columns,
    remove_deleted,
    steps                   \* collaborator calls made by this run, in order

vars == <<bq_tables, yaml_file, source_name, project_id, dataset_id,
          remove_deleted_tables, remove_deleted_columns, yaml_source,
          other_sources, merged_source, merged_file, runs,
          pc, file, file_before, sync_columns, remove_deleted, steps>>

mergeVars == <<bq_tables, yaml_file, source_name, project_id, dataset_id,
               remove_deleted_tables, remove_deleted_columns, yaml_source,
               other_sources, merged_source, merged_file, runs>>

applyVars == <<pc, file, file_before, sync_columns, remove_deleted, steps>>

---------------------------------------------------------------------------
(* Python values *)

None == "<None>"
EmptyDict == "{}"
EmptyList == "[]"
NoneObj == [none |-> TRUE]

\* The values Python treats as false in `if x:` and `x or y`.
Falsy == {None, "", EmptyDict, EmptyList}
Truthy(v) == v \notin Falsy

\* Python's `a or b`.
PyOr(a, b) == IF Truthy(a) THEN a ELSE b

IsNone(obj) == obj = NoneObj

Max(S) == CHOOSE x \in S : \A y \in S : y <= x

\* `key in {e.name: e for e in seq}`
HasName(seq, n) == \E i \in DOMAIN seq : seq[i].name = n

\* `{e.name: e for e in seq}[n]`: a later entry overwrites an earlier one.
LastNamed(seq, n) == seq[Max({i \in DOMAIN seq : seq[i].name = n})]

HasTableId(seq, n) == \E i \in DOMAIN seq : seq[i].table_id = n

---------------------------------------------------------------------------
(* logic/source_builder.py (not among the source files): construction of   *)
(* document entities from a remote descriptor, as spec.md 4.1 and 4.2      *)
(* describe it.                                                            *)

build_column_from_bigquery(bq_col) ==
    [name        |-> bq_col.name,
     data_type   |-> bq_col.field_type,
     description |-> PyOr(bq_col.description, ""),
     meta        |-> None,
     tests       |-> None]

build_table_from_bigquery(bq_table) ==
    [name        |-> bq_table.table_id,
     identifier  |-> None,
     description |-> PyOr(bq_table.description, ""),
     columns     |-> [i \in 1..Len(bq_table.columns) |->
                         build_column_from_bigquery(bq_table.columns[i])],
     meta        |-> None,
     tests       |-> None]

\* DbtSourceFile built from a whole dataset (apply, file does not exist).
build_source_file_from_bigquery(project, dataset, tables) ==
    [version |-> 2,
     sources |-> << [name        |-> dataset,
                     database    |-> project,
                     schema_name |-> dataset,
                     description |-> "",
                     tables      |-> [i \in 1..Len(tables) |->
                                        build_table_from_bigquery(tables[i])],
                     meta        |-> None] >>]

---------------------------------------------------------------------------
(* logic/merge_strategy.py *)

\* merge_columns, body of the first loop (lines 31-46).
merge_column(bq_col, yaml_columns) ==
    IF HasName(yaml_columns, bq_col.name)
    THEN LET yaml_col == LastNamed(yaml_columns, bq_col.name)
         IN  [name        |-> bq_col.name,
              data_type   |-> bq_col.field_type,
              description |-> PyOr(yaml_col.description,
                                   PyOr(bq_col.description, "")),
              meta        |-> yaml_col.meta,
              tests       |-> yaml_col.tests]
    ELSE build_column_from_bigquery(bq_col)

\* The second loop without its membership test: every YAML column is kept.
yaml_only_columns_all(bq_columns, yaml_columns) == yaml_columns

\* merge_columns, second loop (lines 50-52): columns that exist only in YAML.
yaml_only_columns(bq_columns, yaml_columns) ==
    SelectSeq(yaml_columns, LAMBDA c : ~HasName(bq_columns, c.name))

\* merge_columns with the BigQuery loop following the YAML order instead.
merge_columns_yaml_order(bq_columns, yaml_columns, remove_del) ==
    LET matched == SelectSeq(yaml_columns, LAMBDA c : HasName(bq_columns, c.name))
        fresh   == SelectSeq(bq_columns, LAMBDA b : ~HasName(yaml_columns, b.name))
    IN  [i \in 1..Len(matched) |->
            merge_column(LastNamed(bq_columns, matched[i].name), yaml_columns)]
        \o [i \in 1..Len(fresh) |-> merge_column(fresh[i], yaml_columns)]
        \o (IF ~remove_del
            THEN yaml_only_columns(bq_columns, yaml_columns)
            ELSE << >>)

merge_columns(bq_columns, yaml_columns, remove_del) ==
    [i \in 1..Len(bq_columns) |-> merge_column(bq_columns[i], yaml_columns)]
    \o (IF ~remove_del
        THEN yaml_only_columns(bq_columns, yaml_columns)
        ELSE << >>)

\* merge_table taking the description from BigQuery first.
merge_table_bq_first(bq_table, yaml_table, remove_deleted_cols) ==
    IF IsNone(yaml_table)
    THEN build_table_from_bigquery(bq_table)
    ELSE [name        |-> yaml_table.name,
          identifier  |-> yaml_table.identifier,
          description |-> PyOr(bq_table.description,
                               PyOr(yaml_table.description, "")),
          columns     |-> merge_columns(bq_table.columns, yaml_table.columns,
                                        remove_deleted_cols),
          meta        |-> yaml_table.meta,
          tests       |-> yaml_table.tests]

merge_table(bq_table, yaml_table, remove_deleted_cols) ==
    IF IsNone(yaml_table)
    THEN build_table_from_bigquery(bq_table)
    ELSE [name        |-> yaml_table.name,
          identifier  |-> yaml_table.identifier,
          description |-> PyOr(yaml_table.description,
                               PyOr(bq_table.description, "")),
          columns     |-> merge_columns(bq_table.columns, yaml_table.columns,
                                        remove_deleted_cols),
          meta        |-> yaml_table.meta,
          tests       |-> yaml_table.tests]

\* A lookup that also accepts a table whose identifier is the remote id.
yaml_table_map_get_by_identifier(yaml_tables, table_id) ==
    IF HasName(yaml_tables, table_id)
    THEN LastNamed(yaml_tables, table_id)
    ELSE IF \E i \in DOMAIN yaml_tables : yaml_tables[i].identifier = table_id
         THEN yaml_tables[Max({i \in DOMAIN yaml_tables :
                                  yaml_tables[i].identifier = table_id})]
         ELSE NoneObj

\* yaml_table_map.get(bq_table.table_id) (lines 129, 135)
yaml_table_map_get(yaml_tables, table_id) ==
    IF HasName(yaml_tables, table_id)
    THEN LastNamed(yaml_tables, table_id)
    ELSE NoneObj

\* The table loop dropping nothing: YAML-only tables kept whatever the flag.
yaml_only_tables_kept(bq_tbls, yaml_tables, remove_deleted_tbls) ==
    SelectSeq(yaml_tables, LAMBDA t : ~HasTableId(bq_tbls, t.name))

\* The second table loop without its membership test.
yaml_only_tables_all(bq_tbls, yaml_tables, remove_deleted_tbls) ==
    IF ~remove_deleted_tbls THEN yaml_tables ELSE << >>

\* merge_sources, second loop (lines 140-143): tables that exist only in YAML.
yaml_only_tables(bq_tbls, yaml_tables, remove_deleted_tbls) ==
    IF ~remove_deleted_tbls
    THEN SelectSeq(yaml_tables, LAMBDA t : ~HasTableId(bq_tbls, t.name))
    ELSE << >>

merge_sources(bq_tbls, yaml_src, src_name, project, dataset, remove_deleted_tbls, remove_deleted_cols) ==
    LET src == IF IsNone(yaml_src)
               THEN [name        |-> src_name,
                     database    |-> project,
                     schema_name |-> dataset,
                     description |-> "",
                     tables      |-> << >>,
                     meta        |-> None]
               ELSE yaml_src
        merged_tables ==
            [i \in 1..Len(bq_tbls) |->
                merge_table(bq_tbls[i],
                            yaml_table_map_get(src.tables, bq_tbls[i].table_id),
                            remove_deleted_cols)]
            \o yaml_only_tables(bq_tbls, src.tables, remove_deleted_tbls)
    IN  [name        |-> src.name,
         database    |-> PyOr(src.database, project),
         schema_name |-> PyOr(src.schema_name, dataset),
         description |-> src.description,
         tables      |-> merged_tables,
         meta        |-> src.meta]

\* merge_source_file, condition of the selection loop (line 186).
source_matches(source, src_name, dataset) ==
    source.name = src_name \/ source.schema_name = dataset

\* merge_source_file, the selection loop (lines 182-189), from index i on:
\* a matching source replaces the one held, any other is appended.
RECURSIVE select_loop(_, _, _, _, _)
select_loop(sources, i, src_name, dataset, acc) ==
    IF i > Len(sources)
    THEN acc
    ELSE select_loop(sources, i + 1, src_name, dataset,
            IF source_matches(sources[i], src_name, dataset)
            THEN [acc EXCEPT !.yaml_source = sources[i]]
            ELSE [acc EXCEPT !.other_sources = Append(@, sources[i])])

\* merge_source_file, line 203.
all_sources(others, merged) == others \o <<merged>>

\* merge_source_file: the locals and the result, as one record.
merge_source_file(bq_tbls, yaml_f, src_name, project, dataset, remove_deleted_tbls, remove_deleted_cols) ==
    LET f   == IF IsNone(yaml_f) THEN [version |-> 2, sources |-> << >>] ELSE yaml_f
        sel == select_loop(f.sources, 1, src_name, dataset,
                           [yaml_source |-> NoneObj, other_sources |-> << >>])
        m   == merge_sources(bq_tbls, sel.yaml_source, src_name, project, dataset,
                             remove_deleted_tbls, remove_deleted_cols)
    IN  [yaml_source   |-> sel.yaml_source,
         other_sources |-> sel.other_sources,
         merged_source |-> m,
         result        |-> [version |-> f.version,
                            sources |-> all_sources(sel.other_sources, m)]]

---------------------------------------------------------------------------
(* io/yaml_handler.py.  The file at output_path is absent, holds text that  *)
(* is not loadable YAML ("garbled"), or holds YAML whose loaded value is    *)
(* `data`: dicts are functions over the keys present.                       *)

AbsentFile == [state |-> "absent"]
GarbledFile == [state |-> "garbled"]
YamlFile(data) == [state |-> "yaml", data |-> data]

\* dict.get(k, default)
Get(d, k, default) == IF k \in DOMAIN d THEN d[k] ELSE default

\* _serialize_source_file, one column (lines 169-182)
serialize_column(column) ==
    LET keys == {"name"} \cup
                {k \in {"data_type", "description", "meta", "tests"} : Truthy(column[k])}
    IN  [k \in keys |-> column[k]]

\* _serialize_source_file, one table (lines 152-184)
serialize_table(table) ==
    LET keys == {"name"} \cup
                {k \in {"identifier", "description", "meta", "tests"} : Truthy(table[k])}
                \cup (IF Len(table.columns) > 0 THEN {"columns"} ELSE {})
    IN  [k \in keys |->
            IF k = "columns"
            THEN [i \in 1..Len(table.columns) |-> serialize_column(table.columns[i])]
            ELSE table[k]]

\* _serialize_source_file, one source (lines 136-186)
serialize_source(source) ==
    LET keys == {"name", "tables"}
                \cup (IF Truthy(source.database) THEN {"database"} ELSE {})
                \cup (IF Truthy(source.schema_name) THEN {"schema"} ELSE {})
                \cup (IF Truthy(source.description) THEN {"description"} ELSE {})
                \cup (IF Truthy(source.meta) THEN {"meta"} ELSE {})
    IN  [k \in keys |->
            CASE k = "tables" ->
                   [i \in 1..Len(source.tables) |-> serialize_table(source.tables[i])]
              [] k = "schema" -> source.schema_name
              [] OTHER -> source[k]]

serialize_source_file(source_file) ==
    [version |-> source_file.version,
     sources |-> [i \in 1..Len(source_file.sources) |->
                    serialize_source(source_file.sources[i])]]

\* The column parser with .get("description") given no default.
parse_column_no_default(column_data) ==
    [name        |-> column_data["name"],
     data_type   |-> Get(column_data, "data_type", None),
     description |-> Get(column_data, "description", None),
     meta        |-> Get(column_data, "meta", None),
     tests       |-> Get(column_data, "tests", None)]

\* _parse_source_file, one column (lines 87-93)
parse_column(column_data) ==
    [name        |-> column_data["name"],
     data_type   |-> Get(column_data, "data_type", None),
     description |-> Get(column_data, "description", ""),
     meta        |-> Get(column_data, "meta", None),
     tests       |-> Get(column_data, "tests", None)]

\* _parse_source_file, one table (lines 83-103)
parse_table(table_data) ==
    LET column_list == Get(table_data, "columns", << >>)
    IN  [name        |-> table_data["name"],
         identifier  |-> Get(table_data, "identifier", None),
         description |-> Get(table_data, "description", ""),
         columns     |-> [i \in 1..Len(column_list) |-> parse_column(column_list[i])],
         meta        |-> Get(table_data, "meta", None),
         tests       |-> Get(table_data, "tests", None)]

\* _parse_source_file, one source (lines 80-113)
parse_source(source_data) ==
    LET table_list == Get(source_data, "tables", << >>)
    IN  [name        |-> source_data["name"],
         database    |-> Get(source_data, "database", None),
         schema_name |-> Get(source_data, "schema", None),
         description |-> Get(source_data, "description", ""),
         tables      |-> [i \in 1..Len(table_list) |-> parse_table(table_list[i])],
         meta        |-> Get(source_data, "meta", None)]

parse_source_file(data) ==
    LET source_list == Get(data, "sources", << >>)
    IN  [version |-> Get(data, "version", 2),
         sources |-> [i \in 1..Len(source_list) |-> parse_source(source_list[i])]]

\* _parse_source_file raises KeyError: some entry has no "name" key.
parse_raises(data) ==
    LET source_list == Get(data, "sources", << >>)
    IN  \E i \in DOMAIN source_list :
          \/ "name" \notin DOMAIN source_list[i]
          \/ LET table_list == Get(source_list[i], "tables", << >>)
             IN  \E t \in DOMAIN table_list :
                   \/ "name" \notin DOMAIN table_list[t]
                   \/ LET column_list == Get(table_list[t], "columns", << >>)
                      IN  \E c \in DOMAIN column_list :
                            "name" \notin DOMAIN column_list[c]

\* read_source_file with an except clause that logs and does not re-raise.
read_source_file_swallow(f) ==
    IF f.state = "yaml" /\ ~parse_raises(f.data)
    THEN [raised |-> FALSE, value |-> parse_source_file(f.data)]
    ELSE [raised |-> FALSE, value |-> NoneObj]

\* read_source_file (lines 36-47): None for a missing file, the exception of
\* yaml.load or _parse_source_file re-raised, else the parsed document.
read_source_file(f) ==
    IF f.state = "absent"
    THEN [raised |-> FALSE, value |-> NoneObj]
    ELSE IF f.state = "garbled" \/ parse_raises(f.data)
         THEN [raised |-> TRUE, value |-> NoneObj]
         ELSE [raised |-> FALSE, value |-> parse_source_file(f.data)]

\* write_source_file (lines 56-63), the file it leaves when nothing raises.
write_source_file(source_file) == YamlFile(serialize_source_file(source_file))

---------------------------------------------------------------------------
(* cli.py, apply *)

\* The early return dropped.
no_tables_ignored(tables) == FALSE

\* `if not bq_dataset.tables:` (line 62)
no_tables(tables) == tables = << >>

\* The loop of lines 75-78, from index i on: the name of the first source
\* whose schema or name is the dataset, else the default.
RECURSIVE find_source_name(_, _, _, _)
find_source_name(sources, i, schema, default) ==
    IF i > Len(sources)
    THEN default
    ELSE IF sources[i].schema_name = schema \/ sources[i].name = schema
         THEN sources[i].name
         ELSE find_source_name(sources, i + 1, schema, default)

\* Columns pruned whenever --remove-deleted is given.
prune_columns_always(remove_del, sync) == remove_del

\* remove_deleted_columns=remove_deleted and sync_columns (line 88)
prune_columns(remove_del, sync) == remove_del /\ sync

---------------------------------------------------------------------------
(* Bounded input sets *)

MaxDocColumns == 3      \* columns in a document table
MaxDocTables  == 3      \* tables in a document source
MaxSources    == 2      \* sources in a document
MaxRuns       == 2      \* consecutive merge_source_file calls, same snapshot
MaxCalls      == 2      \* consecutive merge_source_file calls, new snapshots

\* Sequences over Pool of length <= n whose entries have distinct names.
NamedSeqs(Pool, n) ==
    {s \in UNION {[1..k -> Pool] : k \in 0..n} :
        \A i, j \in DOMAIN s : i # j => s[i].name # s[j].name}

\* Sequences over Pool of length <= n without repetition.
DistinctSeqs(Pool, n) ==
    {s \in UNION {[1..k -> Pool] : k \in 0..n} :
        \A i, j \in DOMAIN s : i # j => s[i] # s[j]}

\* -- remote side (BigQueryColumn, BigQueryTable) --
BqColumn(n, t, d) == [name |-> n, field_type |-> t, description |-> d]
BqTable(id, d, cols) == [table_id |-> id, description |-> d, columns |-> cols]

rc1 == BqColumn("c1", "INT64", None)
rc2 == BqColumn("c2", "STRING", "from bigquery")

BqColumnLists == NamedSeqs({rc1, rc2}, 2)

rt2 == BqTable("t2", "from bigquery", <<rc2, rc1>>)

BqTableLists ==
    {<<BqTable("t1", None, cols)>> : cols \in BqColumnLists}
    \cup {s \in UNION {[1..k -> {BqTable("t1", None, <<rc1, rc2>>), rt2}] : k \in 0..2} :
            \A i, j \in DOMAIN s : i # j => s[i].table_id # s[j].table_id}

\* -- document side (DbtColumn, DbtTable, DbtSource, DbtSourceFile) --
BlankColumn(n) ==
    [name |-> n, data_type |-> None, description |-> "", meta |-> None, tests |-> None]
DocumentedColumn(n) ==
    [name |-> n, data_type |-> "STRING", description |-> "documented",
     meta |-> "{pii: false}", tests |-> "[not_null]"]

\* c1, c2 exist remotely; c3, c4 exist only in documents.
DocColumnPool ==
    {BlankColumn("c1"), DocumentedColumn("c1"), BlankColumn("c2"),
     DocumentedColumn("c2"), DocumentedColumn("c3"), BlankColumn("c4")}

BlankTable(n, cols) ==
    [name |-> n, identifier |-> None, description |-> "", columns |-> cols,
     meta |-> None, tests |-> None]
DocumentedTable(n, ident, cols) ==
    [name |-> n, identifier |-> ident, description |-> "documented", columns |-> cols,
     meta |-> "{owner: data}", tests |-> "[row_count]"]

\* t1, t2 exist remotely; t3 (an alias whose identifier is the remote id t1)
\* and t4 exist only in documents.
DocTablePool ==
    {BlankTable("t1", << >>),
     DocumentedTable("t1", "legacy_t1", <<DocumentedColumn("c1"), DocumentedColumn("c3")>>),
     BlankTable("t2", <<BlankColumn("c2")>>),
     DocumentedTable("t2", "legacy_t2", <<DocumentedColumn("c3"), DocumentedColumn("c2")>>),
     DocumentedTable("t3", "t1", <<DocumentedColumn("c1")>>),
     BlankTable("t4", <<BlankColumn("c4")>>)}

Source(n, db, sch, d, m, tbls) ==
    [name |-> n, database |-> db, schema_name |-> sch, description |-> d,
     tables |-> tbls, meta |-> m]

SourcePool ==
    {Source("s1", "p1", "ds1", "documented", "{team: a}",
            <<DocumentedTable("t1", "legacy_t1", <<DocumentedColumn("c1")>>)>>),
     Source("s2", None, "ds1", "", None,
            <<BlankTable("t2", << >>), BlankTable("t4", << >>)>>),
     Source("s3", "p1", "ds2", "documented", None, <<BlankTable("t1", << >>)>>),
     Source("s1", "p2", "ds2", "", "{team: b}", << >>),
     Source("s4", None, None, "", None, <<BlankTable("t4", <<BlankColumn("c4")>>)>>)}

SourceFile(v, srcs) == [version |-> v, sources |-> srcs]

\* One source, one table t1, every column list.
ColumnDocs ==
    {SourceFile(2, <<Source("s1", "p1", "ds1", "", None, <<BlankTable("t1", cols)>>)>>) :
        cols \in NamedSeqs(DocColumnPool, MaxDocColumns)}

\* One source, every table list.
TableDocs ==
    {SourceFile(2, <<Source("s1", "p1", "ds1", "", None, tbls)>>) :
        tbls \in NamedSeqs(DocTablePool, MaxDocTables)}

\* Several sources.
SourceDocs ==
    {SourceFile(v, srcs) : v \in {2, 3}, srcs \in DistinctSeqs(SourcePool, MaxSources)}

\* Documents that repeat a column name or a table name.
DuplicateDocs ==
    {SourceFile(2, <<Source("s1", "p1", "ds1", "", None, tbls)>>) :
        tbls \in {<<BlankTable("t1", <<DocumentedColumn("c1"), BlankColumn("c1")>>)>>,
                  <<BlankTable("t1", <<DocumentedColumn("c3"), BlankColumn("c3")>>)>>,
                  <<DocumentedTable("t1", None, <<DocumentedColumn("c1")>>),
                    BlankTable("t1", <<BlankColumn("c2")>>)>>,
                  <<DocumentedTable("t4", None, << >>), BlankTable("t4", << >>)>>}}

Docs == ColumnDocs \cup TableDocs \cup SourceDocs \cup DuplicateDocs

SourceNames == {"s1", "ds1"}

---------------------------------------------------------------------------
(* MergeSpec: merge_source_file called on a document, then on its own output *)

Idle == /\ pc = "idle"
        /\ file = AbsentFile
        /\ file_before = AbsentFile
        /\ sync_columns = FALSE
        /\ remove_deleted = FALSE
        /\ steps = << >>

NoLocals == /\ yaml_source = NoneObj
            /\ other_sources = << >>
            /\ merged_source = NoneObj
            /\ merged_file = NoneObj
            /\ runs = 0

MergeInit ==
    /\ bq_tables \in BqTableLists
    /\ yaml_file \in Docs \cup {NoneObj}
    /\ source_name \in SourceNames
    /\ project_id = "p1"
    /\ dataset_id = "ds1"
    /\ remove_deleted_tables \in BOOLEAN
    /\ remove_deleted_columns \in BOOLEAN
    /\ NoLocals
    /\ Idle

\* The call merge_source_file(bq_tables, f, ...) and what it leaves behind.
CallMerge(f) ==
    LET r == merge_source_file(bq_tables, f, source_name, project_id, dataset_id,
                               remove_deleted_tables, remove_deleted_columns)
    IN  /\ yaml_file' = f
        /\ yaml_source' = r.yaml_source
        /\ other_sources' = r.other_sources
        /\ merged_source' = r.merged_source
        /\ merged_file' = r.result
        /\ runs' = runs + 1
        /\ UNCHANGED <<bq_tables, source_name, project_id, dataset_id,
                       remove_deleted_tables, remove_deleted_columns>>

\* First call, on the document given.
Merge ==
    /\ runs = 0
    /\ CallMerge(yaml_file)
    /\ UNCHANGED applyVars

\* Next call, on the previous result, with the same snapshot and arguments.
Remerge ==
    /\ runs >= 1
    /\ runs < MaxRuns
    /\ CallMerge(merged_file)
    /\ UNCHANGED applyVars

MergeNext == Merge \/ Remerge

MergeSpec == MergeInit /\ [][MergeNext]_vars

---------------------------------------------------------------------------
(* Spec: one run of `apply` (cli.py lines 53-102) against the file at       *)
(* output_path.  pc is the position in apply; steps logs the calls made.    *)

\* A stored document with a source that has no name.
NamelessData ==
    [version |-> 2,
     sources |-> << [schema |-> "ds1", tables |-> << [name |-> "t1"] >>] >>]

StoredFiles ==
    {AbsentFile, GarbledFile, YamlFile(NamelessData)}
    \cup {write_source_file(d) : d \in Docs}

Init ==
    /\ pc = "fetch"
    /\ file \in StoredFiles
    /\ file_before = file
    /\ sync_columns \in BOOLEAN
    /\ remove_deleted \in BOOLEAN
    /\ steps = << >>
    /\ project_id = "p1"
    /\ dataset_id = "ds1"
    /\ bq_tables = << >>
    /\ yaml_file = NoneObj
    /\ source_name = None
    /\ remove_deleted_tables = FALSE
    /\ remove_deleted_columns = FALSE
    /\ NoLocals

\* bq_client.get_dataset_schema returns a dataset (line 60).
Fetch ==
    /\ pc = "fetch"
    /\ bq_tables' \in BqTableLists
    /\ pc' = "fetched"
    /\ steps' = Append(steps, "fetch:ok")
    /\ UNCHANGED <<yaml_file, source_name, project_id, dataset_id,
                   remove_deleted_tables, remove_deleted_columns, yaml_source,
                   other_sources, merged_source, merged_file, runs,
                   file, file_before, sync_columns, remove_deleted>>

\* bq_client.get_dataset_schema raises (line 60): apply ends with the error.
FetchFails ==
    /\ pc = "fetch"
    /\ pc' = "error"
    /\ steps' = Append(steps, "fetch:raise")
    /\ UNCHANGED <<mergeVars, file, file_before, sync_columns, remove_deleted>>

\* No tables found: warning and return (lines 62-64).
NoTables ==
    /\ pc = "fetched"
    /\ no_tables(bq_tables)
    /\ pc' = "done"
    /\ UNCHANGED <<mergeVars, file, file_before, sync_columns, remove_deleted, steps>>

\* The file exists and is read (lines 66-70).
ReadFile ==
    /\ pc = "fetched"
    /\ ~no_tables(bq_tables)
    /\ file.state # "absent"
    /\ ~read_source_file(file).raised
    /\ yaml_file' = read_source_file(file).value
    /\ pc' = "merge"
    /\ steps' = Append(steps, "read:ok")
    /\ UNCHANGED <<bq_tables, source_name, project_id, dataset_id,
                   remove_deleted_tables, remove_deleted_columns, yaml_source,
                   other_sources, merged_source, merged_file, runs,
                   file, file_before, sync_columns, remove_deleted>>

\* The file exists and reading it raises (line 70): apply ends with the error.
ReadFails ==
    /\ pc = "fetched"
    /\ ~no_tables(bq_tables)
    /\ file.state # "absent"
    /\ read_source_file(file).raised
    /\ pc' = "error"
    /\ steps' = Append(steps, "read:raise")
    /\ UNCHANGED <<mergeVars, file, file_before, sync_columns, remove_deleted>>

\* Source name found, merge_source_file called (lines 72-89).
MergeExisting ==
    /\ pc = "merge"
    /\ LET name == IF ~IsNone(yaml_file) /\ Len(yaml_file.sources) > 0
                   THEN find_source_name(yaml_file.sources, 1, dataset_id, dataset_id)
                   ELSE dataset_id
           rdt  == remove_deleted
           rdc  == prune_columns(remove_deleted, sync_columns)
           r    == merge_source_file(bq_tables, yaml_file, name, project_id,
                                     dataset_id, rdt, rdc)
       IN  /\ source_name' = name
           /\ remove_deleted_tables' = rdt
           /\ remove_deleted_columns' = rdc
           /\ yaml_source' = r.yaml_source
           /\ other_sources' = r.other_sources
           /\ merged_source' = r.merged_source
           /\ merged_file' = r.result
    /\ runs' = runs + 1
    /\ pc' = "write"
    /\ steps' = Append(steps, "merge")
    /\ UNCHANGED <<bq_tables, yaml_file, project_id, dataset_id,
                   file, file_before, sync_columns, remove_deleted>>

\* The file does not exist: the document is built from the dataset (lines 94-98).
Create ==
    /\ pc = "fetched"
    /\ ~no_tables(bq_tables)
    /\ file.state = "absent"
    /\ merged_file' = build_source_file_from_bigquery(project_id, dataset_id, bq_tables)
    /\ pc' = "write"
    /\ steps' = Append(steps, "build")
    /\ UNCHANGED <<bq_tables, yaml_file, source_name, project_id, dataset_id,
                   remove_deleted_tables, remove_deleted_columns, yaml_source,
                   other_sources, merged_source, runs,
                   file, file_before, sync_columns, remove_deleted>>

\* write_source_file succeeds (lines 92, 101).
Write ==
    /\ pc = "write"
    /\ file' = write_source_file(merged_file)
    /\ pc' = "done"
    /\ steps' = Append(steps, "write:ok")
    /\ UNCHANGED <<mergeVars, file_before, sync_columns, remove_deleted>>

\* write_source_file raises (yaml_handler.py lines 58-66): before the file is
\* opened (it is untouched) or after (it is truncated or partly written).
WriteFails ==
    /\ pc = "write"
    /\ file' \in {file, GarbledFile}
    /\ pc' = "error"
    /\ steps' = Append(steps, "write:raise")
    /\ UNCHANGED <<mergeVars, file_before, sync_columns, remove_deleted>>

Next ==
    \/ Fetch
    \/ FetchFails
    \/ NoTables
    \/ ReadFile
    \/ ReadFails
    \/ MergeExisting
    \/ Create
    \/ Write
    \/ WriteFails

Spec == Init /\ [][Next]_vars

---------------------------------------------------------------------------
(* Properties of the merge functions, checked under MergeSpec.  After a    *)
(* call (runs >= 1) yaml_file is the document the call was given,          *)
(* yaml_source the source it selected and merged_source / merged_file what *)
(* it produced.                                                            *)

Merged == runs >= 1

\* Tables of the selected source (none when no source was selected).
SelectedTables == IF IsNone(yaml_source) THEN << >> ELSE yaml_source.tables

\* Sources of the document given (none when there was no document).
GivenSources == IF IsNone(yaml_file) THEN << >> ELSE yaml_file.sources

NameCount(seq, n) == Cardinality({i \in DOMAIN seq : seq[i].name = n})

\* The entries of seq at the indices not in K, in order.
Without(seq, K) ==
    LET keep == {i \in DOMAIN seq : i \notin K}
        nth(k) == CHOOSE i \in keep : Cardinality({j \in keep : j < i}) = k - 1
    IN  [k \in 1..Cardinality(keep) |-> seq[nth(k)]]

Rest(seq, from) == SubSeq(seq, from, Len(seq))

IsEmptyText(d) == d = "" \/ d = None

\* C1 (idempotence of merge_source_file): a call given the result of the
\* previous call, with the same snapshot, source name, project id, dataset id
\* and prune flags, returns a document equal to the one it was given.
C1_Idempotent == runs >= 2 => merged_file = yaml_file

\* A second call was made on a document with a passed-through source and a
\* selected source that holds a table of at least two columns.
C1_Witness ==
    /\ runs >= 2
    /\ Len(other_sources) >= 1
    /\ ~IsNone(yaml_source)
    /\ Len(bq_tables) >= 1
    /\ \E i \in DOMAIN merged_source.tables :
          Len(merged_source.tables[i].columns) >= 2

\* C2 (information preservation): for a table in both the snapshot and the
\* selected source, and a column in both that table's remote and document
\* columns, the merged entity keeps the document's meta and tests, keeps the
\* document's description when that is non-empty, and takes the remote
\* description (or the empty string) only when the document's is empty.
\* (Stated for names that occur once in the document.)
C2_Preserved ==
    Merged =>
      \A i \in DOMAIN bq_tables : \A t \in DOMAIN SelectedTables :
        LET bt == bq_tables[i]
            yt == SelectedTables[t]
            mt == merged_source.tables[i]
        IN  (yt.name = bt.table_id /\ NameCount(SelectedTables, yt.name) = 1) =>
              /\ mt.meta = yt.meta
              /\ mt.tests = yt.tests
              /\ (yt.description # "" => mt.description = yt.description)
              /\ (yt.description = "" =>
                    mt.description = IF IsEmptyText(bt.description) THEN ""
                                     ELSE bt.description)
              /\ \A j \in DOMAIN bt.columns : \A c \in DOMAIN yt.columns :
                   LET bc == bt.columns[j]
                       yc == yt.columns[c]
                       mc == mt.columns[j]
                   IN  (yc.name = bc.name /\ NameCount(yt.columns, yc.name) = 1) =>
                         /\ mc.meta = yc.meta
                         /\ mc.tests = yc.tests
                         /\ (yc.description # "" => mc.description = yc.description)
                         /\ (yc.description = "" =>
                               mc.description = IF IsEmptyText(bc.description) THEN ""
                                                ELSE bc.description)

\* A documented table met a remote table with another description, and one of
\* its documented columns met a remote column with another description.
C2_Witness ==
    /\ runs = 1
    /\ \E i \in DOMAIN bq_tables : \E t \in DOMAIN SelectedTables :
         /\ SelectedTables[t].name = bq_tables[i].table_id
         /\ SelectedTables[t].description # ""
         /\ ~IsEmptyText(bq_tables[i].description)
         /\ SelectedTables[t].meta # None
         /\ \E j \in DOMAIN bq_tables[i].columns :
            \E c \in DOMAIN SelectedTables[t].columns :
              /\ SelectedTables[t].columns[c].name = bq_tables[i].columns[j].name
              /\ SelectedTables[t].columns[c].meta # None
              /\ SelectedTables[t].columns[c].description # ""
              /\ ~IsEmptyText(bq_tables[i].columns[j].description)

\* C3 (pass-through of the other sources), as claimed: at most one source of
\* the document is taken out for merging (none exactly when nothing matched),
\* and the result lists every other source, unchanged and in order, followed
\* by the merged source.
C3_PassThrough ==
    (Merged /\ ~IsNone(yaml_file)) =>
      \E K \in SUBSET DOMAIN GivenSources :
        /\ Cardinality(K) <= 1
        /\ (K = {} <=> IsNone(yaml_source))
        /\ merged_file.sources = Without(GivenSources, K) \o <<merged_source>>

\* C4 (first match wins), as claimed: when several sources of the document
\* match the source name or the dataset id, the earliest one is merged.
C4_FirstMatch ==
    (Merged /\ ~IsNone(yaml_file)) =>
      LET hits == {i \in DOMAIN GivenSources :
                     \/ GivenSources[i].name = source_name
                     \/ GivenSources[i].schema_name = dataset_id}
      IN  hits # {} =>
            yaml_source = GivenSources[CHOOSE i \in hits : \A j \in hits : i <= j]

\* C5 (table pruning in merge_sources): with remove_deleted_tables every output
\* table is named after a snapshot table; without it, the tables of the
\* existing source that no snapshot table is named after follow the
\* snapshot-driven tables, unmodified and in their order.
C5_Pruning ==
    Merged =>
      /\ remove_deleted_tables =>
           \A i \in DOMAIN merged_source.tables :
             \E b \in DOMAIN bq_tables :
               bq_tables[b].table_id = merged_source.tables[i].name
      /\ ~remove_deleted_tables =>
           Rest(merged_source.tables, Len(bq_tables) + 1)
             = Without(SelectedTables,
                       {t \in DOMAIN SelectedTables :
                          \E b \in DOMAIN bq_tables :
                            bq_tables[b].table_id = SelectedTables[t].name})

\* Pruning was asked for and the selected source held a table that the
\* snapshot does not.
C5_Witness ==
    /\ runs = 1
    /\ remove_deleted_tables
    /\ Len(bq_tables) >= 1
    /\ \E t \in DOMAIN SelectedTables :
         \A b \in DOMAIN bq_tables : bq_tables[b].table_id # SelectedTables[t].name
    /\ \E t \in DOMAIN SelectedTables :
         \E b \in DOMAIN bq_tables : bq_tables[b].table_id = SelectedTables[t].name

\* Indices of the entries of seq whose name is a table id of the snapshot.
InSnapshot(seq) ==
    {t \in DOMAIN seq : \E b \in DOMAIN bq_tables : bq_tables[b].table_id = seq[t].name}

\* C6 (ordering after a merge): the output tables are one per snapshot table,
\* in snapshot order, followed (when retained) by the document-only tables in
\* their order; the columns of each merged table are one per remote column, in
\* remote order, followed (when retained) by the document-only columns of the
\* matched table in their order.
C6_Ordering ==
    Merged =>
      /\ Len(merged_source.tables) >= Len(bq_tables)
      /\ Rest(merged_source.tables, Len(bq_tables) + 1)
           = IF remove_deleted_tables THEN << >>
             ELSE Without(SelectedTables, InSnapshot(SelectedTables))
      /\ \A i \in DOMAIN bq_tables :
           LET bt == bq_tables[i]
               mt == merged_source.tables[i]
               remote(cols) == {c \in DOMAIN cols :
                                  \E j \in DOMAIN bt.columns : bt.columns[j].name = cols[c].name}
           IN  /\ mt.name = bt.table_id
               /\ Len(mt.columns) >= Len(bt.columns)
               /\ \A j \in DOMAIN bt.columns : mt.columns[j].name = bt.columns[j].name
               /\ (\A t \in DOMAIN SelectedTables : SelectedTables[t].name # bt.table_id)
                    => Len(mt.columns) = Len(bt.columns)
               /\ \A t \in DOMAIN SelectedTables :
                    (/\ SelectedTables[t].name = bt.table_id
                     /\ NameCount(SelectedTables, bt.table_id) = 1) =>
                       Rest(mt.columns, Len(bt.columns) + 1)
                         = IF remove_deleted_columns THEN << >>
                           ELSE Without(SelectedTables[t].columns,
                                        remote(SelectedTables[t].columns))

\* Nothing pruned; two snapshot tables in the opposite order of the document's,
\* a document-only table, and a matched table with two remote columns and a
\* document-only column placed before a remote one.
C6_Witness ==
    /\ runs = 1
    /\ ~remove_deleted_tables
    /\ ~remove_deleted_columns
    /\ Len(bq_tables) = 2
    /\ \E t, u \in DOMAIN SelectedTables :
         /\ t < u
         /\ SelectedTables[t].name = bq_tables[2].table_id
         /\ SelectedTables[u].name = bq_tables[1].table_id
    /\ InSnapshot(SelectedTables) # DOMAIN SelectedTables
    /\ \E i \in DOMAIN bq_tables : \E t \in DOMAIN SelectedTables :
         /\ SelectedTables[t].name = bq_tables[i].table_id
         /\ Len(bq_tables[i].columns) = 2
         /\ \E c, d \in DOMAIN SelectedTables[t].columns :
              /\ c < d
              /\ SelectedTables[t].columns[d].name = bq_tables[i].columns[1].name
              /\ \A j \in DOMAIN bq_tables[i].columns :
                   bq_tables[i].columns[j].name # SelectedTables[t].columns[c].name

\* C7 (tables are matched by document name only): a remote table r is merged
\* with the document table named r, whose name and identifier (and meta, tests)
\* it keeps; when no document table is named r the output table is built from
\* the remote table alone, even if a document table has identifier r; such a
\* table, named after no remote table, is handled as document-only.
C7_MatchByName ==
    Merged =>
      \A i \in DOMAIN bq_tables :
        LET r  == bq_tables[i].table_id
            mt == merged_source.tables[i]
        IN  /\ \A t \in DOMAIN SelectedTables :
                 (SelectedTables[t].name = r /\ NameCount(SelectedTables, r) = 1) =>
                    /\ mt.name = SelectedTables[t].name
                    /\ mt.identifier = SelectedTables[t].identifier
                    /\ mt.meta = SelectedTables[t].meta
                    /\ mt.tests = SelectedTables[t].tests
            /\ (\A t \in DOMAIN SelectedTables : SelectedTables[t].name # r) =>
                    /\ mt.name = r
                    /\ mt.identifier = None
                    /\ mt.meta = None
                    /\ mt.tests = None
            /\ \A t \in DOMAIN SelectedTables :
                 (SelectedTables[t].identifier = r /\ t \notin InSnapshot(SelectedTables)) =>
                    IF remove_deleted_tables
                    THEN \A k \in DOMAIN merged_source.tables :
                            merged_source.tables[k].name # SelectedTables[t].name
                    ELSE \E k \in DOMAIN merged_source.tables :
                            /\ k > Len(bq_tables)
                            /\ merged_source.tables[k] = SelectedTables[t]

\* The document has a table whose identifier, not its name, is a remote id,
\* no table named after that id, and another table with an identifier
\* override that is matched by name.
C7_Witness ==
    /\ runs = 1
    /\ ~remove_deleted_tables
    /\ \E i \in DOMAIN bq_tables : \E t \in DOMAIN SelectedTables :
         /\ SelectedTables[t].identifier = bq_tables[i].table_id
         /\ SelectedTables[t].name # bq_tables[i].table_id
         /\ \A u \in DOMAIN SelectedTables : SelectedTables[u].name # bq_tables[i].table_id
    /\ \E i \in DOMAIN bq_tables : \E t \in DOMAIN SelectedTables :
         /\ SelectedTables[t].name = bq_tables[i].table_id
         /\ SelectedTables[t].identifier \notin {None, bq_tables[i].table_id}

---------------------------------------------------------------------------
(* Properties of the apply command, checked under Spec. *)

Logged(step) == \E i \in DOMAIN steps : steps[i] = step

\* The raw tables of the last source of the stored file (the merged source).
StoredTables ==
    LET stored == file.data["sources"]
    IN  stored[Len(stored)]["tables"]

\* Whether the stored table named tname lists a column named cname.
StoredHasColumn(tname, cname) ==
    \E k \in DOMAIN StoredTables :
      /\ StoredTables[k]["name"] = tname
      /\ "columns" \in DOMAIN StoredTables[k]
      /\ \E j \in DOMAIN StoredTables[k]["columns"] :
           StoredTables[k]["columns"][j]["name"] = cname

\* C8 (prune flags of apply): after an update run, a document-only table of the
\* selected source is missing from the stored result exactly when
\* remove_deleted (pruneAbsent) is set; a document-only column of a matched
\* table is missing exactly when remove_deleted and sync_columns are both set;
\* so with remove_deleted and without sync_columns every column of every
\* matched document table is still stored.  (Stated for matched tables whose
\* name occurs once in the document.)
C8_PruneFlags ==
    (pc = "done" /\ Logged("merge")) =>
      /\ remove_deleted_tables = remove_deleted
      /\ remove_deleted_columns = (remove_deleted /\ sync_columns)
      /\ \A t \in DOMAIN SelectedTables :
           t \notin InSnapshot(SelectedTables) =>
             ((\E k \in DOMAIN StoredTables :
                  StoredTables[k]["name"] = SelectedTables[t].name)
              <=> ~remove_deleted)
      /\ \A t \in InSnapshot(SelectedTables) :
           LET yt == SelectedTables[t]
               bt == CHOOSE b \in {bq_tables[i] : i \in DOMAIN bq_tables} :
                        b.table_id = yt.name
           IN  NameCount(SelectedTables, yt.name) = 1 =>
                 \A c \in DOMAIN yt.columns :
                   LET stored == StoredHasColumn(yt.name, yt.columns[c].name)
                   IN  /\ (\E j \in DOMAIN bt.columns :
                              bt.columns[j].name = yt.columns[c].name) => stored
                       /\ (\A j \in DOMAIN bt.columns :
                              bt.columns[j].name # yt.columns[c].name) =>
                            (stored <=> ~(remove_deleted /\ sync_columns))
                       /\ (remove_deleted /\ ~sync_columns) => stored

\* An update run with remove_deleted and without sync_columns finished; the
\* selected source held a document-only table and a matched table with a
\* document-only column.
C8_Witness ==
    /\ pc = "done"
    /\ Logged("merge")
    /\ remove_deleted
    /\ ~sync_columns
    /\ InSnapshot(SelectedTables) # DOMAIN SelectedTables
    /\ \E t \in InSnapshot(SelectedTables) :
         \E c \in DOMAIN SelectedTables[t].columns :
           \A i \in DOMAIN bq_tables :
             SelectedTables[t].name = bq_tables[i].table_id =>
               \A j \in DOMAIN bq_tables[i].columns :
                 bq_tables[i].columns[j].name # SelectedTables[t].columns[c].name

\* C9 (fatal errors leave the stored document unchanged): when the fetch or
\* the read of the existing file raises, the run ends in error with no build,
\* no merge and no write, and the file is what it was; a run over a file whose
\* text is not loadable never merges, builds or writes; a write is only ever
\* made after a successful fetch and either a successful read of the file or
\* its absence.
C9_FatalErrors ==
    /\ (Logged("fetch:raise") \/ Logged("read:raise"))
         => /\ pc = "error"
            /\ ~Logged("build") /\ ~Logged("merge")
            /\ ~Logged("write:ok") /\ ~Logged("write:raise")
            /\ runs = 0
            /\ file = file_before
    /\ file_before.state = "garbled"
         => /\ pc \notin {"merge", "write"}
            /\ ~Logged("build") /\ ~Logged("merge")
            /\ ~Logged("write:ok") /\ ~Logged("write:raise")
            /\ runs = 0
            /\ file = file_before
    /\ (Logged("write:ok") \/ Logged("write:raise") \/ file # file_before)
         => /\ steps[1] = "fetch:ok"
            /\ \/ (steps[2] = "read:ok" /\ steps[3] = "merge"
                   /\ file_before.state = "yaml")
               \/ (steps[2] = "build" /\ file_before.state = "absent")

\* A run ended in error at the read of an existing file, after a fetch that
\* returned tables.
C9_Witness ==
    /\ pc = "error"
    /\ Logged("read:raise")
    /\ Len(bq_tables) >= 1
    /\ file_before.state # "absent"

\* C10 (a snapshot without tables is nothing to do): once the fetch has returned
\* zero tables the run returns normally (the return is its next step): it never
\* reads, builds, merges or writes, never ends in error, and the file (existing
\* or absent) is what it was, whatever sync_columns and remove_deleted are.
C10_NoTables ==
    (Logged("fetch:ok") /\ bq_tables = << >>) =>
      /\ pc \in {"fetched", "done"}
      /\ (pc = "fetched" => ENABLED NoTables)
      /\ steps = <<"fetch:ok">>
      /\ runs = 0
      /\ merged_file = NoneObj
      /\ file = file_before

\* A run over an existing document, with both flags set, returned after a
\* fetch of zero tables.
C10_Witness ==
    /\ pc = "done"
    /\ bq_tables = << >>
    /\ Logged("fetch:ok")
    /\ file_before.state = "yaml"
    /\ sync_columns
    /\ remove_deleted

---------------------------------------------------------------------------
(* RoundTripSpec: a document is written with write_source_file and the file *)
(* read back with read_source_file (tests/io/test_yaml_handler.py).         *)
(* merged_file is the document written, yaml_file the document read.        *)

\* Optional values: unset, set but empty, set.
OptionalTexts(v) == {None, "", v}
OptionalMetas == {None, EmptyDict, "{pii: false}"}
OptionalTests == {None, EmptyList, "[not_null]"}
Descriptions == {"", "documented"}

RoundTripColumns ==
    {[name |-> "c1", data_type |-> dt, description |-> d, meta |-> m, tests |-> t] :
        dt \in OptionalTexts("STRING"), d \in Descriptions,
        m \in OptionalMetas, t \in OptionalTests}

RoundTripTables ==
    {BlankTable("t1", <<c>>) : c \in RoundTripColumns}
    \cup {[name |-> "t1", identifier |-> id, description |-> d, columns |-> cols,
           meta |-> m, tests |-> t] :
            id \in OptionalTexts("legacy_t1"), d \in Descriptions,
            m \in OptionalMetas, t \in OptionalTests,
            cols \in {<< >>, <<DocumentedColumn("c1"), BlankColumn("c2")>>}}

RoundTripDocs ==
    Docs
    \cup {SourceFile(2, <<Source("s1", "p1", "ds1", "", None, <<t>>)>>) :
            t \in RoundTripTables}
    \cup {SourceFile(2, <<Source("s1", db, sch, d, m, <<BlankTable("t1", << >>)>>)>>) :
            db \in OptionalTexts("p1"), sch \in OptionalTexts("ds1"),
            d \in Descriptions, m \in OptionalMetas}

RoundTripInit ==
    /\ pc = "write"
    /\ merged_file \in RoundTripDocs
    /\ file = AbsentFile
    /\ file_before = AbsentFile
    /\ yaml_file = NoneObj
    /\ sync_columns = FALSE
    /\ remove_deleted = FALSE
    /\ steps = << >>
    /\ bq_tables = << >>
    /\ source_name = None
    /\ project_id = "p1"
    /\ dataset_id = "ds1"
    /\ remove_deleted_tables = FALSE
    /\ remove_deleted_columns = FALSE
    /\ yaml_source = NoneObj
    /\ other_sources = << >>
    /\ merged_source = NoneObj
    /\ runs = 0

\* yaml_handler.write_source_file(path, source_file)
StoreDocument ==
    /\ pc = "write"
    /\ file' = write_source_file(merged_file)
    /\ pc' = "read"
    /\ steps' = Append(steps, "write:ok")
    /\ UNCHANGED <<mergeVars, file_before, sync_columns, remove_deleted>>

\* read_file = yaml_handler.read_source_file(path)
LoadDocument ==
    /\ pc = "read"
    /\ ~read_source_file(file).raised
    /\ yaml_file' = read_source_file(file).value
    /\ pc' = "done"
    /\ steps' = Append(steps, "read:ok")
    /\ UNCHANGED <<bq_tables, source_name, project_id, dataset_id,
                   remove_deleted_tables, remove_deleted_columns, yaml_source,
                   other_sources, merged_source, merged_file, runs,
                   file, file_before, sync_columns, remove_deleted>>

RoundTripNext == StoreDocument \/ LoadDocument

RoundTripSpec == RoundTripInit /\ [][RoundTripNext]_vars

\* An optional value as it reads back: unset when it was empty.
ReadBack(v) == IF v \in {"", EmptyDict, EmptyList} THEN None ELSE v

ColumnReadBack(c) ==
    [name |-> c.name, data_type |-> ReadBack(c.data_type),
     description |-> c.description, meta |-> ReadBack(c.meta),
     tests |-> ReadBack(c.tests)]

TableReadBack(t) ==
    [name |-> t.name, identifier |-> ReadBack(t.identifier),
     description |-> t.description,
     columns |-> [i \in 1..Len(t.columns) |-> ColumnReadBack(t.columns[i])],
     meta |-> ReadBack(t.meta), tests |-> ReadBack(t.tests)]

SourceReadBack(src) ==
    [name |-> src.name, database |-> ReadBack(src.database),
     schema_name |-> ReadBack(src.schema_name), description |-> src.description,
     tables |-> [i \in 1..Len(src.tables) |-> TableReadBack(src.tables[i])],
     meta |-> ReadBack(src.meta)]

\* C11 (store/load round trip), as claimed: the document read back equals the
\* document written, field by field.
C11_RoundTrip == pc = "done" => yaml_file = merged_file

\* C11, amended: the document read back has the version, sources, tables and
\* columns of the document written, in the same order, with the same names
\* and descriptions; each optional field (database, schema name, identifier,
\* data type, meta, tests) has the written value when that was non-empty and
\* is None when it was None or empty ("", {}, []); a table written with an
\* empty column list reads back with an empty column list.
C11_RoundTripUpToEmpty ==
    pc = "done" =>
      /\ yaml_file.version = merged_file.version
      /\ yaml_file.sources =
           [i \in 1..Len(merged_file.sources) |-> SourceReadBack(merged_file.sources[i])]
      /\ \A i \in DOMAIN merged_file.sources :
         \A t \in DOMAIN merged_file.sources[i].tables :
           merged_file.sources[i].tables[t].columns = << >>
             => yaml_file.sources[i].tables[t].columns = << >>

\* A document with a column whose meta is the empty mapping, next to a
\* non-empty data type, and read back different from what was written.
C11_Witness ==
    /\ pc = "done"
    /\ yaml_file # merged_file
    /\ \E i \in DOMAIN merged_file.sources :
       \E t \in DOMAIN merged_file.sources[i].tables :
       \E c \in DOMAIN merged_file.sources[i].tables[t].columns :
         /\ merged_file.sources[i].tables[t].columns[c].meta = EmptyDict
         /\ merged_file.sources[i].tables[t].columns[c].data_type = "STRING"
         /\ yaml_file.sources[i].tables[t].columns[c].meta = None
         /\ yaml_file.sources[i].tables[t].columns[c].data_type = "STRING"

---------------------------------------------------------------------------
(* SequenceSpec: merge_source_file called again and again, each call on the *)
(* result of the previous one, with a snapshot, a source name and prune     *)
(* flags chosen anew.  The first document has unique table names in every   *)
(* source and unique column names in every table.                           *)

UniqueDocs == ColumnDocs \cup TableDocs \cup SourceDocs

SequenceInit ==
    /\ yaml_file \in UniqueDocs \cup {NoneObj}
    /\ bq_tables = << >>
    /\ source_name = None
    /\ project_id = "p1"
    /\ dataset_id = "ds1"
    /\ remove_deleted_tables = FALSE
    /\ remove_deleted_columns = FALSE
    /\ NoLocals
    /\ Idle

\* One call on the document held in yaml_file.
MergeWith ==
    /\ IsNone(merged_file)
    /\ runs < MaxCalls
    /\ \E tbls \in BqTableLists, name \in SourceNames, rdt \in BOOLEAN, rdc \in BOOLEAN :
         LET r == merge_source_file(tbls, yaml_file, name, project_id, dataset_id, rdt, rdc)
         IN  /\ bq_tables' = tbls
             /\ source_name' = name
             /\ remove_deleted_tables' = rdt
             /\ remove_deleted_columns' = rdc
             /\ yaml_source' = r.yaml_source
             /\ other_sources' = r.other_sources
             /\ merged_source' = r.merged_source
             /\ merged_file' = r.result
    /\ runs' = runs + 1
    /\ UNCHANGED <<yaml_file, project_id, dataset_id, applyVars>>

\* The caller keeps the result as the document for the next call.
Continue ==
    /\ ~IsNone(merged_file)
    /\ runs < MaxCalls
    /\ yaml_file' = merged_file
    /\ merged_file' = NoneObj
    /\ bq_tables' = << >>
    /\ source_name' = None
    /\ remove_deleted_tables' = FALSE
    /\ remove_deleted_columns' = FALSE
    /\ yaml_source' = NoneObj
    /\ other_sources' = << >>
    /\ merged_source' = NoneObj
    /\ UNCHANGED <<runs, project_id, dataset_id, applyVars>>

SequenceNext == MergeWith \/ Continue

SequenceSpec == SequenceInit /\ [][SequenceNext]_vars

\* Entries of seq have pairwise different names.
DistinctNames(seq) ==
    \A i, j \in DOMAIN seq : i # j => seq[i].name # seq[j].name

UniqueNames(doc) ==
    \A i \in DOMAIN doc.sources :
      /\ DistinctNames(doc.sources[i].tables)
      /\ \A t \in DOMAIN doc.sources[i].tables :
           DistinctNames(doc.sources[i].tables[t].columns)

\* C12 (name uniqueness is kept): after any sequence of merge_source_file calls
\* that starts from a document (or none) with unique table names per source and
\* unique column names per table, whatever the snapshots (unique table ids,
\* unique column names) and prune flags, table names are unique within every
\* source and column names within every table of the document returned.
C12_UniqueNames ==
    /\ ~IsNone(yaml_file) => UniqueNames(yaml_file)
    /\ ~IsNone(merged_file) => UniqueNames(merged_file)

\* A second call, nothing pruned, whose input (the previous result) holds,
\* next to a passed-through source, a table the current snapshot lacks with a
\* column typed by an earlier snapshot; the result has a table of two columns.
C12_Witness ==
    /\ runs >= 2
    /\ ~IsNone(merged_file)
    /\ ~remove_deleted_tables
    /\ ~remove_deleted_columns
    /\ Len(other_sources) >= 1
    /\ \E t \in DOMAIN SelectedTables :
         /\ t \notin InSnapshot(SelectedTables)
         /\ \E c \in DOMAIN SelectedTables[t].columns :
              SelectedTables[t].columns[c].data_type = "INT64"
    /\ \E t \in DOMAIN merged_source.tables :
         Len(merged_source.tables[t].columns) >= 2

===========================================================================
